---- MODULE Spec2Model ----
(***************************************************************************)
(* getDataByPerspective of OmniFocus-MCP: the TypeScript wrapper, the      *)
(* AppleScript it generates (perspective switch, task scan with filters,   *)
(* urgency scoring, per-tier quotas, project listing, JSON output) and the *)
(* parsing of the script's output.                                         *)
(*                                                                         *)
(* Time is counted in half days, so that fractional days are visible:      *)
(* days = 2 units.  An optional value is <<"undefined">> or <<"val", v>>;  *)
(* an AppleScript property read is <<"val", v>>, <<"missing">> (missing    *)
(* value) or <<"error">> (the read raises an error, caught by the try      *)
(* block around it).                                                       *)
(*                                                                         *)
(* `next repeat` of the generated script is read as "go on with the next   *)
(* record"; every statement after it is guarded by shouldInclude, so the   *)
(* records' fate is the same if it does nothing.  The scripts are read as  *)
(* AppleScript text: the quoting of the osascript command line is not in   *)
(* the model, a command that fails is (ExecFails).                         *)
(***************************************************************************)
EXTENDS Integers, Sequences, FiniteSets

VARIABLES
  impl,                \* which getDataByPerspective runs: "optimized" | "plain"
  params,              \* GetDataByPerspectiveParams of the call
  docTasks,            \* flattened tasks of the front document
  docProjects,         \* flattened projects of the front document (their status)
  now,                 \* current date
  windowPerspective,   \* perspective of the front window
  pc,                  \* position of the call
  i,                   \* repeat with aTask in allTasks: index of aTask
  urgencyScore,
  priorityLevel,
  highCount, mediumCount, lowCount,
  highPriorityTasks, mediumPriorityTasks, lowPriorityTasks,
  visibleTasks,        \* plain path: the tasks kept
  visibleProjects,
  rejectedBy,          \* history, per record: "unseen", the filter that set
                       \* shouldInclude to false, or "none"
  readUnder,           \* history, per record: "unread", or the perspective of
                       \* the window when the loop read the record
  rulesRun,            \* history, per record of the optimized scan: the filter
                       \* blocks whose body has run, in the order they ran
  previous,            \* the call before this one: its params and its result
  peer,                \* another getDataByPerspective in flight: its position
                       \* and its perspectiveName
  stdout,              \* output of osascript
  calls,               \* number of osascript executions
  result               \* value the promise resolves to

vars == <<impl, params, docTasks, docProjects, now, windowPerspective, pc, i,
          urgencyScore, priorityLevel, highCount, mediumCount, lowCount,
          highPriorityTasks, mediumPriorityTasks, lowPriorityTasks,
          visibleTasks, visibleProjects, rejectedBy, readUnder, rulesRun, previous,
          peer, stdout, calls, result>>

-----------------------------------------------------------------------------
(* Values *)

Undefined == <<"undefined">>
Some(v) == <<"val", v>>
Missing == <<"missing">>
Unavailable == <<"error">>
IsVal(x) == x[1] = "val"
Val(x) == x[2]

\* units of time per day (`days` of AppleScript, in half days)
days == 2

\* maxResults = 500 of the destructuring
DefaultMaxResults == 500

-----------------------------------------------------------------------------
(* Bounds of the model *)

MaxTasks == 4
MaxNow == 1
MaxCriteria == 2
MaxFields == 2

-----------------------------------------------------------------------------
(* Destructuring of the parameters with their defaults *)

OrDefault(x, d) == IF IsVal(x) THEN Val(x) ELSE d

hideCompleted == OrDefault(params.hideCompleted, TRUE)
flaggedOnly == OrDefault(params.flaggedOnly, FALSE)
withTags == OrDefault(params.withTags, <<>>)
maxResults == OrDefault(params.maxResults, DefaultMaxResults)
prioritizeUrgent == OrDefault(params.prioritizeUrgent, TRUE)
\* projectName?.replace(...) || ''
escapedProjectName == OrDefault(params.projectName, "")

\* JavaScript truthiness of an optional number: undefined and 0 are falsy
Truthy(x) == IsVal(x) /\ Val(x) # 0

-----------------------------------------------------------------------------
(* AppleScript text comparison: `is` / `is not` on text ignore case *)

Lower(s) == CASE s = "Work" -> "work"
              [] s = "Home" -> "home"
              [] OTHER -> s

TextIs(a, b) == Lower(a) = Lower(b)

-----------------------------------------------------------------------------
(* The filters of the optimized script, one operator per block; each is    *)
(* TRUE when the block leaves shouldInclude true.                          *)

ProjectAndTagsMut(t) ==
  /\ IF escapedProjectName # ""
       THEN IF IsVal(t.project)
              THEN TextIs(Val(t.project), escapedProjectName)
              ELSE FALSE
       ELSE TRUE
  /\ withTags # <<>> =>
       \E a \in 1..Len(withTags), b \in 1..Len(t.tags) : withTags[a] = t.tags[b]

\* if shouldInclude and "<escapedProjectName>" is not "" then ... end if
ProjectNameFilter(t) ==
  IF escapedProjectName # ""
    THEN IF IsVal(t.project)
           THEN TextIs(Val(t.project), escapedProjectName)
           ELSE FALSE            \* missing value, or on error
    ELSE TRUE

\* if shouldInclude and <flaggedOnly> then ... end if
FlaggedOnlyFilter(t) == IF flaggedOnly THEN t.flagged ELSE TRUE

MinWithoutEstimateMut(t) ==
  IF Truthy(params.minEstimatedMinutes)
    THEN IF IsVal(t.estimatedMinutes)
           THEN ~(Val(t.estimatedMinutes) < Val(params.minEstimatedMinutes))
           ELSE TRUE
    ELSE TRUE

\* ${minEstimatedMinutes ? `if shouldInclude then try ... end try end if` : ''}
MinEstimatedFilter(t) ==
  IF Truthy(params.minEstimatedMinutes)
    THEN IF IsVal(t.estimatedMinutes)
           THEN ~(Val(t.estimatedMinutes) < Val(params.minEstimatedMinutes))
           ELSE FALSE            \* missing value, or on error
    ELSE TRUE

MaxWithoutEstimateMut(t) ==
  IF Truthy(params.maxEstimatedMinutes)
    THEN IF IsVal(t.estimatedMinutes)
           THEN ~(Val(t.estimatedMinutes) > Val(params.maxEstimatedMinutes))
           ELSE FALSE
    ELSE TRUE

\* ${maxEstimatedMinutes ? `if shouldInclude then try ... end try end if` : ''}
MaxEstimatedFilter(t) ==
  IF Truthy(params.maxEstimatedMinutes)
    THEN IF IsVal(t.estimatedMinutes)
           THEN ~(Val(t.estimatedMinutes) > Val(params.maxEstimatedMinutes))
           ELSE TRUE             \* missing value: no test; on error: included
    ELSE TRUE

\* ${withDueDate !== undefined ? `if shouldInclude then try ... end try end if` : ''}
WithDueDateFilter(t) ==
  IF IsVal(params.withDueDate)
    THEN IF t.dueDate = Unavailable
           THEN ~Val(params.withDueDate)      \* on error
           ELSE IF Val(params.withDueDate)
                  THEN t.dueDate # Missing
                  ELSE t.dueDate = Missing
    ELSE TRUE

\* if shouldInclude and <hideCompleted> then ... end if
HideCompletedFilter(t) ==
  IF hideCompleted THEN ~(t.completed \/ t.dropped) ELSE TRUE

\* The blocks in the order of the script; the first one that sets
\* shouldInclude to false, "none" when shouldInclude stays true.
RejectedBy(t) ==
  IF ~ProjectNameFilter(t) THEN "projectName"
  ELSE IF ~FlaggedOnlyFilter(t) THEN "flaggedOnly"
  ELSE IF ~MinEstimatedFilter(t) THEN "minEstimatedMinutes"
  ELSE IF ~MaxEstimatedFilter(t) THEN "maxEstimatedMinutes"
  ELSE IF ~WithDueDateFilter(t) THEN "withDueDate"
  ELSE IF ~HideCompletedFilter(t) THEN "hideCompleted"
  ELSE "none"

ShouldInclude(t) == RejectedBy(t) = "none"

\* the filter blocks, in the order of the script
Blocks == <<"projectName", "flaggedOnly", "minEstimatedMinutes",
            "maxEstimatedMinutes", "withDueDate", "hideCompleted">>

\* the body of the block is in the script and its condition on the
\* criterion is true
BlockEnabled(b) ==
  CASE b = "projectName" -> escapedProjectName # ""
    [] b = "flaggedOnly" -> flaggedOnly
    [] b = "minEstimatedMinutes" -> Truthy(params.minEstimatedMinutes)
    [] b = "maxEstimatedMinutes" -> Truthy(params.maxEstimatedMinutes)
    [] b = "withDueDate" -> IsVal(params.withDueDate)
    [] b = "hideCompleted" -> hideCompleted

BlockPasses(b, t) ==
  CASE b = "projectName" -> ProjectNameFilter(t)
    [] b = "flaggedOnly" -> FlaggedOnlyFilter(t)
    [] b = "minEstimatedMinutes" -> MinEstimatedFilter(t)
    [] b = "maxEstimatedMinutes" -> MaxEstimatedFilter(t)
    [] b = "withDueDate" -> WithDueDateFilter(t)
    [] b = "hideCompleted" -> HideCompletedFilter(t)

\* the blocks from the k-th on whose body runs for the task: every block
\* is under `if shouldInclude`, so none runs after one has rejected
RECURSIVE RunBlocks(_, _)
RunBlocks(t, k) ==
  IF k > Len(Blocks) THEN <<>>
  ELSE IF BlockEnabled(Blocks[k])
    THEN IF BlockPasses(Blocks[k], t)
           THEN <<Blocks[k]>> \o RunBlocks(t, k + 1)
           ELSE <<Blocks[k]>>
    ELSE RunBlocks(t, k + 1)

-----------------------------------------------------------------------------
(* The filters of the plain script *)

PlainEstimateMut(t) ==
  IF IsVal(t.estimatedMinutes)
    THEN /\ (Truthy(params.minEstimatedMinutes) =>
               ~(Val(t.estimatedMinutes) < Val(params.minEstimatedMinutes)))
         /\ (Truthy(params.maxEstimatedMinutes) =>
               ~(Val(t.estimatedMinutes) > Val(params.maxEstimatedMinutes)))
    ELSE TRUE

\* if shouldInclude then try set taskEstimatedMinutes ... end try end if
PlainEstimateFilter(t) ==
  IF IsVal(t.estimatedMinutes)
    THEN /\ (Truthy(params.minEstimatedMinutes) =>
               ~(Val(t.estimatedMinutes) < Val(params.minEstimatedMinutes)))
         /\ (Truthy(params.maxEstimatedMinutes) =>
               ~(Val(t.estimatedMinutes) > Val(params.maxEstimatedMinutes)))
    ELSE ~Truthy(params.minEstimatedMinutes)   \* missing value, or on error

PlainShouldInclude(t) ==
  /\ ~(hideCompleted /\ (t.completed \/ t.dropped))
  /\ ~(flaggedOnly /\ ~t.flagged)
  /\ ProjectNameFilter(t)
  /\ PlainEstimateFilter(t)
  /\ WithDueDateFilter(t)

-----------------------------------------------------------------------------
(* Urgency score and priority level *)

FlaggedPoints(t) == IF t.flagged THEN 100 ELSE 0

DuePointsMut(t, currentDate) ==
  IF IsVal(t.dueDate)
    THEN LET diff == Val(t.dueDate) - currentDate
         IN  IF diff < 0 THEN 200
             ELSE IF diff <= 1 * days THEN 150
             ELSE IF diff < 2 * days THEN 100
             ELSE IF diff < 8 * days THEN 50
             ELSE 0
    ELSE 0

\* daysDiff = (taskDueDate - currentDate) / days, a real number:
\* daysDiff < k  iff  taskDueDate - currentDate < k * days
DuePoints(t, currentDate) ==
  IF IsVal(t.dueDate)
    THEN LET diff == Val(t.dueDate) - currentDate
         IN  IF diff < 0 THEN 200
             ELSE IF diff < 1 * days THEN 150
             ELSE IF diff < 2 * days THEN 100
             ELSE IF diff < 8 * days THEN 50
             ELSE 0
    ELSE 0                        \* missing value, or on error

DurationPoints(t) ==
  IF IsVal(t.estimatedMinutes)
    THEN LET m == Val(t.estimatedMinutes)
         IN  IF m <= 15 THEN 30
             ELSE IF m <= 30 THEN 20
             ELSE IF m <= 60 THEN 10
             ELSE 0
    ELSE 0                        \* missing value, or on error

UrgencyScore(t, currentDate) ==
  FlaggedPoints(t) + DuePoints(t, currentDate) + DurationPoints(t)

PriorityLevelMut(score) ==
  IF score > 150 THEN "high"
  ELSE IF score >= 50 THEN "medium"
  ELSE "low"

PriorityLevel(score) ==
  IF score >= 150 THEN "high"
  ELSE IF score >= 50 THEN "medium"
  ELSE "low"

-----------------------------------------------------------------------------
(* Quotas *)

CeilTenthsMut(x, k) == (x * k + 9) \div 10

\* Math.floor(x * 0.4) and Math.floor(x * 0.2) for an integer x, with k = 4
\* and k = 2.  For x >= 0 the product of doubles is never below an integer
\* that the exact product reaches, so its floor is the floor of the exact
\* quotient; the same holds for the negative x of the model (-1), where the
\* exact product is no integer.
FloorTenths(x, k) == (x * k) \div 10

maxHighPriority == FloorTenths(maxResults, 4)
maxMediumPriority == FloorTenths(maxResults, 4)

maxLowPriorityMut == FloorTenths(maxResults, 4)

maxLowPriority == FloorTenths(maxResults, 2)

QuotasFullMut ==
  (highCount >= maxHighPriority) /\ (mediumCount >= maxMediumPriority)
    /\ (lowCount > maxLowPriority)

\* (highCount >= maxHighPriority) and (mediumCount >= maxMediumPriority)
\*   and (lowCount >= maxLowPriority)
QuotasFull ==
  (highCount >= maxHighPriority) /\ (mediumCount >= maxMediumPriority)
    /\ (lowCount >= maxLowPriority)

-----------------------------------------------------------------------------
(* The records the scripts read *)

\* what the window shows under its perspective
WindowTasksMut ==
  SelectSeq(docTasks,
            LAMBDA t : /\ windowPerspective = "Inbox" => t.project = Missing
                       /\ windowPerspective = "Flagged" => t.flagged)

\* set allTasks to flattened tasks, inside `tell front document`
allTasks == docTasks

\* set allProjects to flattened projects, inside `tell front document`
allProjects == docProjects

-----------------------------------------------------------------------------
(* The JSON text the scripts build, and its parsing *)

Null == <<"null">>

\* set xStr to "null"; try; if x is not missing value then set xStr to ...
NullOr(x) == IF IsVal(x) THEN x ELSE Null

\* taskTagsStr: the tag names joined with ","
RECURSIVE JoinTags(_)
JoinTags(tags) ==
  IF tags = <<>> THEN <<>>
  ELSE IF Len(tags) = 1 THEN <<tags[1]>>
  ELSE <<tags[1], ",">> \o JoinTags(Tail(tags))

\* task.tags.split(',').filter(tag => tag.trim() !== '')
SplitTags(str) == SelectSeq(str, LAMBDA piece : piece # "," /\ piece # "" /\ piece # " ")

\* taskInfo of the optimized script (the note is text like the name)
TaskInfo(k, score, level) ==
  LET t == allTasks[k]
  IN  [id |-> k, name |-> t.name, completed |-> t.completed, flagged |-> t.flagged,
       estimatedMinutes |-> NullOr(t.estimatedMinutes),
       dueDate |-> NullOr(t.dueDate),
       tags |-> JoinTags(t.tags),
       projectName |-> NullOr(t.project),
       urgencyScore |-> score, priorityLevel |-> level]

\* taskInfo of the plain script
PlainTaskInfo(k) ==
  LET t == allTasks[k]
  IN  [id |-> k, name |-> t.name, completed |-> t.completed, flagged |-> t.flagged,
       estimatedMinutes |-> NullOr(t.estimatedMinutes),
       dueDate |-> NullOr(t.dueDate),
       projectName |-> NullOr(t.project),
       tags |-> t.tags]

\* projectInfo of both scripts
ProjectInfo(k) ==
  [id |-> k, name |-> allProjects[k].name, status |-> allProjects[k].status]

\* A text (a name, an error message) is a sequence of pieces; the pieces
\* "\"" and "\\" are the characters that end or escape a JSON string, which
\* the scripts put into their output as they are.
BreaksJson(text) == \E k \in 1..Len(text) : text[k] \in {"\"", "\\"}

\* the texts the script has put between quotes in its output
RECURSIVE Texts(_)
Texts(items) ==
  IF items = <<>> THEN <<>>
  ELSE <<items[1].name>> \o Texts(Tail(items))

RECURSIVE Flatten(_)
Flatten(texts) ==
  IF texts = <<>> THEN <<>> ELSE texts[1] \o Flatten(Tail(texts))

\* the output as text: return output, or
\* return "{\"success\":false,\"error\":\"" & errMsg & "\"}"
StdoutText(out) ==
  IF out.success
    THEN <<"{\"success\":true,\"tasks\":[">> \o Flatten(Texts(out.tasks))
           \o <<"],\"projects\":[">> \o Flatten(Texts(out.projects)) \o <<"]}">>
    ELSE <<"{\"success\":false,\"error\":\"">> \o out.error \o <<"\"}">>

\* JSON.parse(stdout) throws
Unparseable(out) ==
  IF out.success
    THEN \/ \E k \in 1..Len(out.tasks) : BreaksJson(out.tasks[k].name)
         \/ \E k \in 1..Len(out.projects) : BreaksJson(out.projects[k].name)
    ELSE BreaksJson(out.error)

ConcatMut(urgentFirst, h, m, l) == IF urgentFirst THEN h \o l \o m ELSE l \o m \o h

\* set allTasks to highPriorityTasks & mediumPriorityTasks & lowPriorityTasks, or
\* set allTasks to lowPriorityTasks & mediumPriorityTasks & highPriorityTasks
Concat(urgentFirst, h, m, l) == IF urgentFirst THEN h \o m \o l ELSE l \o m \o h

\* tasks: result.tasks?.map(...) of the optimized wrapper
MapTask(t) ==
  [id |-> t.id, name |-> t.name, completed |-> t.completed, flagged |-> t.flagged,
   estimatedMinutes |-> t.estimatedMinutes, dueDate |-> t.dueDate,
   tags |-> SplitTags(t.tags), projectName |-> t.projectName,
   urgencyScore |-> t.urgencyScore]

MapTasks(ts) == [k \in 1..Len(ts) |-> MapTask(ts[k])]

FailureMut(out) == [success |-> FALSE, error |-> <<"Unknown error">>]

\* else { return { success: false, error: result.error } }
Failure(out) == [success |-> FALSE, error |-> out.error]

\* catch (error): error.message of the SyntaxError of JSON.parse.  (V8 says
\* "Unexpected token ... in JSON at position n" or quotes at most 10
\* characters on each side of the token; the shortest output of the script,
\* {"success":false,"error":""}, is longer than that.)
SyntaxErrorMessage == <<"Unexpected token in JSON">>

\* catch (error): error.message of the rejection of execAsync
CommandFailedMessage == <<"Command failed: osascript">>

\* the value the optimized getDataByPerspective resolves to
Resolve(out) ==
  IF Unparseable(out) THEN [success |-> FALSE, error |-> SyntaxErrorMessage]
  ELSE IF out.success
    THEN [success |-> TRUE, perspective |-> out.perspective,
          tasks |-> MapTasks(out.tasks), projects |-> out.projects,
          stats |-> out.stats]
  ELSE Failure(out)

\* the value the plain getDataByPerspective resolves to
PlainResolve(out) ==
  IF Unparseable(out)
    THEN [success |-> FALSE, error |-> <<"Failed to parse result: ">> \o StdoutText(out)]
    ELSE out

-----------------------------------------------------------------------------
(* The inputs of the model *)

BuiltInPerspectives == {"Inbox", "Projects", "Tags", "Forecast", "Flagged", "Review"}
CustomPerspectives == {"Today"}
PerspectiveNames == {"Inbox", "Today", "Nope"}

ErrMsgs ==
  { <<"Perspective not found">>,
    <<"Can't get perspective whose name = ", "\"", "Nope", "\"", ".">> }

DefaultParams ==
  [perspectiveName |-> "Inbox", hideCompleted |-> Undefined,
   hideRecurringDuplicates |-> Undefined, minEstimatedMinutes |-> Undefined,
   maxEstimatedMinutes |-> Undefined, flaggedOnly |-> Undefined,
   withTags |-> Undefined, withDueDate |-> Undefined,
   projectName |-> Undefined, maxResults |-> Undefined,
   prioritizeUrgent |-> Undefined]

PlainTask ==
  [name |-> <<"task">>, flagged |-> FALSE, estimatedMinutes |-> Missing, dueDate |-> Missing,
   completed |-> FALSE, dropped |-> FALSE, project |-> Missing, tags |-> <<>>]

Criteria == {"hideCompleted", "hideRecurringDuplicates", "minEstimatedMinutes",
             "maxEstimatedMinutes", "flaggedOnly", "withTags", "withDueDate",
             "projectName"}

TaskFields == {"name", "flagged", "estimatedMinutes", "dueDate", "completed", "dropped",
               "project", "tags"}

\* calls with at most MaxCriteria criteria given
CriteriaParams ==
  { p \in [perspectiveName : {"Inbox"},
           hideCompleted : {Undefined, Some(FALSE)},
           hideRecurringDuplicates : {Undefined, Some(FALSE)},
           minEstimatedMinutes : {Undefined, Some(0), Some(30)},
           maxEstimatedMinutes : {Undefined, Some(60)},
           flaggedOnly : {Undefined, Some(TRUE)},
           withTags : {Undefined, Some(<<"a">>)},
           withDueDate : {Undefined, Some(TRUE), Some(FALSE)},
           projectName : {Undefined, Some(""), Some("Work")},
           maxResults : {Undefined},
           prioritizeUrgent : {Undefined}] :
      Cardinality({f \in Criteria : IsVal(p[f])}) <= MaxCriteria }

\* tasks that differ from PlainTask in at most MaxFields fields
CriteriaTasks ==
  { t \in [name : {<<"task">>, <<"the ", "\"", "big", "\"", " task">>},
           flagged : BOOLEAN,
           estimatedMinutes : {Missing, Unavailable, Some(10), Some(45), Some(90)},
           dueDate : {Missing, Unavailable, Some(3)},
           completed : BOOLEAN,
           dropped : BOOLEAN,
           project : {Missing, Unavailable, Some("Work"), Some("work"), Some("Home")},
           tags : {<<>>, <<"a">>}] :
      Cardinality({f \in TaskFields : t[f] # PlainTask[f]}) <= MaxFields }

\* tasks over the bands of the urgency score
ScoreTasks ==
  { [PlainTask EXCEPT !.flagged = f, !.estimatedMinutes = e, !.dueDate = d] :
      f \in BOOLEAN,
      e \in {Missing, Unavailable} \cup {Some(m) : m \in {0, 15, 16, 30, 31, 60, 61}},
      d \in {Missing, Unavailable}
              \cup {Some(x) : x \in {-1, 0, 1, 2, 3, 4, 5, 15, 16, 17, 18}} }

\* one task of each priority level, and a completed one
HighTask == [PlainTask EXCEPT !.flagged = TRUE, !.dueDate = Some(-1)]
MediumTask == [PlainTask EXCEPT !.dueDate = Some(3)]
DoneTask == [PlainTask EXCEPT !.completed = TRUE]
QuotaTasks == {HighTask, MediumTask, PlainTask, DoneTask}

Budgets == {-1, 0, 2, 3, 5}

StreamsOf(T, n) == UNION {[1..k -> T] : k \in 0..n}

DocProjects ==
  << [name |-> <<"Work">>, status |-> "active"],
     [name |-> <<"Home">>, status |-> "done"],
     [name |-> <<"Old">>, status |-> "dropped"] >>

\* nothing written to stdout, nothing returned yet
NoOutput == [pending |-> TRUE]

\* the records the loop body has evaluated
evaluated == {k \in 1..Len(docTasks) : rejectedBy[k] # "unseen"}

-----------------------------------------------------------------------------
(* Initial states *)

InitCall ==
  /\ docProjects = DocProjects
  /\ windowPerspective = "Inbox"
  /\ pc = "idle"
  /\ i = 1
  /\ urgencyScore = 0
  /\ priorityLevel = "low"
  /\ highCount = 0 /\ mediumCount = 0 /\ lowCount = 0
  /\ highPriorityTasks = <<>> /\ mediumPriorityTasks = <<>> /\ lowPriorityTasks = <<>>
  /\ visibleTasks = <<>>
  /\ visibleProjects = <<>>
  /\ rejectedBy = [k \in 1..Len(docTasks) |-> "unseen"]
  /\ readUnder = [k \in 1..Len(docTasks) |-> "unread"]
  /\ rulesRun = [k \in 1..Len(docTasks) |-> <<>>]
  /\ previous = NoOutput
  /\ stdout = NoOutput
  /\ calls = 0
  /\ result = NoOutput

\* one task, any few criteria, both implementations
InitCriteria ==
  /\ now = 0
  /\ impl \in {"optimized", "plain"}
  /\ params \in CriteriaParams
  /\ docTasks \in {<<t>> : t \in CriteriaTasks}

\* one task, no criteria: the urgency score
InitScore ==
  /\ now = 0
  /\ impl = "optimized"
  /\ params = DefaultParams
  /\ docTasks \in {<<t>> : t \in ScoreTasks}

\* streams of tasks under small budgets: the quotas
InitQuota ==
  /\ now = 0
  /\ impl = "optimized"
  /\ params \in {[DefaultParams EXCEPT !.maxResults = Some(b), !.prioritizeUrgent = u] :
                   b \in Budgets, u \in {Undefined, Some(FALSE)}}
  /\ docTasks \in StreamsOf(QuotaTasks, MaxTasks)

\* short streams under criteria and a small budget, both implementations
MixedParams ==
  { [DefaultParams EXCEPT !.minEstimatedMinutes = Some(30), !.maxResults = Some(3)],
    [DefaultParams EXCEPT !.maxEstimatedMinutes = Some(60), !.maxResults = Some(5)],
    [DefaultParams EXCEPT !.flaggedOnly = Some(TRUE), !.withDueDate = Some(TRUE)],
    [DefaultParams EXCEPT !.projectName = Some("Work"), !.hideCompleted = Some(FALSE)] }

MixedTasks ==
  { PlainTask, HighTask, DoneTask,
    [PlainTask EXCEPT !.estimatedMinutes = Some(45), !.project = Some("Work")],
    [HighTask EXCEPT !.estimatedMinutes = Some(90), !.project = Some("work")] }

InitMixed ==
  /\ now = 0
  /\ impl \in {"optimized", "plain"}
  /\ params \in MixedParams
  /\ docTasks \in StreamsOf(MixedTasks, MaxTasks - 1)

\* the perspectives
InitPerspective ==
  /\ now = 0
  /\ impl \in {"optimized", "plain"}
  /\ params \in {[DefaultParams EXCEPT !.perspectiveName = n] : n \in PerspectiveNames}
  /\ docTasks \in StreamsOf({PlainTask, HighTask}, 1)

\* no other call
Alone == [pc |-> "none", perspectiveName |-> "Inbox"]

Init ==
  /\ InitCriteria \/ InitScore \/ InitQuota \/ InitMixed \/ InitPerspective
  /\ InitCall
  /\ peer = Alone

-----------------------------------------------------------------------------
(* The call *)

\* what no step of the call changes: its inputs, the document, the other
\* call, the call before
callVars == <<impl, params, docTasks, docProjects, peer, previous>>
scanVars == <<i, urgencyScore, priorityLevel, highCount, mediumCount, lowCount,
              highPriorityTasks, mediumPriorityTasks, lowPriorityTasks,
              visibleTasks, rejectedBy, readUnder, rulesRun>>

InvokeSerializedMut ==
  /\ pc = "idle"
  /\ peer.pc \notin {"osascript", "scan"}
  /\ calls' = calls + 1
  /\ pc' = "osascript"
  /\ UNCHANGED <<callVars, scanVars, now, windowPerspective, visibleProjects,
                 stdout, result>>

\* const { stdout } = await execAsync(`osascript -e '...'`)
Invoke ==
  /\ pc = "idle"
  /\ calls' = calls + 1
  /\ pc' = "osascript"
  /\ UNCHANGED <<callVars, scanVars, now, windowPerspective, visibleProjects,
                 stdout, result>>

\* execAsync rejects: catch (error) { return { success: false, error: ... } }
ExecFails ==
  /\ pc = "osascript"
  /\ result' = [success |-> FALSE, error |-> CommandFailedMessage]
  /\ pc' = "done"
  /\ UNCHANGED <<callVars, scanVars, now, windowPerspective, visibleProjects,
                 stdout, calls>>

\* tell targetWindow ... set perspective to ... ; the counters and lists are set
SetPerspective ==
  /\ pc = "osascript"
  /\ params.perspectiveName \in BuiltInPerspectives \cup CustomPerspectives
  /\ windowPerspective' = params.perspectiveName
  /\ highCount' = 0 /\ mediumCount' = 0 /\ lowCount' = 0
  /\ highPriorityTasks' = <<>> /\ mediumPriorityTasks' = <<>>
  /\ lowPriorityTasks' = <<>>
  /\ visibleTasks' = <<>> /\ visibleProjects' = <<>>
  /\ pc' = IF impl = "optimized" THEN "repeat" ELSE "plainRepeat"
  /\ UNCHANGED <<callVars, i, urgencyScore, priorityLevel, rejectedBy, readUnder,
                 rulesRun, now, stdout, calls, result>>

\* on error errMsg: return "{\"success\":false,\"error\":\"" & errMsg & "\"}"
\* (no perspective of that name, no front window, ...)
ScriptFails ==
  /\ pc = "osascript"
  /\ \E errMsg \in ErrMsgs : stdout' = [success |-> FALSE, error |-> errMsg]
  /\ pc' = "parse"
  /\ UNCHANGED <<callVars, scanVars, now, windowPerspective, visibleProjects,
                 calls, result>>

\* repeat with aTask in allTasks: the early exit and the filters of one record
Repeat ==
  /\ pc = "repeat"
  /\ IF i > Len(allTasks) \/ QuotasFull
       THEN /\ pc' = "projects"
            /\ UNCHANGED <<i, rejectedBy, readUnder, rulesRun>>
       ELSE /\ rejectedBy' = [rejectedBy EXCEPT ![i] = RejectedBy(allTasks[i])]
            /\ rulesRun' = [rulesRun EXCEPT ![i] = RunBlocks(allTasks[i], 1)]
            /\ readUnder' = [readUnder EXCEPT ![i] = windowPerspective]
            /\ IF ShouldInclude(allTasks[i])
                 THEN pc' = "score" /\ i' = i
                 ELSE pc' = "repeat" /\ i' = i + 1
  /\ UNCHANGED <<callVars, urgencyScore, priorityLevel, highCount, mediumCount,
                 lowCount, highPriorityTasks, mediumPriorityTasks,
                 lowPriorityTasks, visibleTasks, now, windowPerspective,
                 visibleProjects, stdout, calls, result>>

\* set urgencyScore to 0 ... the three contributions; `current date` is read
\* here, and time may have passed
Score ==
  /\ pc = "score"
  /\ \E currentDate \in now..MaxNow :
       /\ now' = currentDate
       /\ urgencyScore' = UrgencyScore(allTasks[i], currentDate)
  /\ pc' = "classify"
  /\ UNCHANGED <<callVars, i, priorityLevel, highCount, mediumCount, lowCount,
                 highPriorityTasks, mediumPriorityTasks, lowPriorityTasks,
                 visibleTasks, rejectedBy, readUnder, rulesRun, windowPerspective,
                 visibleProjects, stdout, calls, result>>

\* set priorityLevel to "low" ...
Classify ==
  /\ pc = "classify"
  /\ priorityLevel' = PriorityLevel(urgencyScore)
  /\ pc' = "collect"
  /\ UNCHANGED <<callVars, i, urgencyScore, highCount, mediumCount, lowCount,
                 highPriorityTasks, mediumPriorityTasks, lowPriorityTasks,
                 visibleTasks, rejectedBy, readUnder, rulesRun, now, windowPerspective,
                 visibleProjects, stdout, calls, result>>

\* a high task over its quota takes the place of the last high task
CollectEvictMut ==
  /\ pc = "collect"
  /\ LET info == TaskInfo(i, urgencyScore, priorityLevel)
     IN  IF priorityLevel = "high" /\ highCount < maxHighPriority
           THEN /\ highCount' = highCount + 1
                /\ highPriorityTasks' = Append(highPriorityTasks, info)
                /\ UNCHANGED <<mediumCount, lowCount, mediumPriorityTasks,
                               lowPriorityTasks>>
         ELSE IF priorityLevel = "high" /\ highPriorityTasks # <<>>
           THEN /\ highPriorityTasks' =
                     Append(SubSeq(highPriorityTasks, 1, Len(highPriorityTasks) - 1),
                            info)
                /\ UNCHANGED <<highCount, mediumCount, lowCount,
                               mediumPriorityTasks, lowPriorityTasks>>
         ELSE IF priorityLevel = "medium" /\ mediumCount < maxMediumPriority
           THEN /\ mediumCount' = mediumCount + 1
                /\ mediumPriorityTasks' = Append(mediumPriorityTasks, info)
                /\ UNCHANGED <<highCount, lowCount, highPriorityTasks,
                               lowPriorityTasks>>
         ELSE IF priorityLevel = "low" /\ lowCount < maxLowPriority
           THEN /\ lowCount' = lowCount + 1
                /\ lowPriorityTasks' = Append(lowPriorityTasks, info)
                /\ UNCHANGED <<highCount, mediumCount, highPriorityTasks,
                               mediumPriorityTasks>>
         ELSE UNCHANGED <<highCount, mediumCount, lowCount, highPriorityTasks,
                          mediumPriorityTasks, lowPriorityTasks>>
  /\ i' = i + 1
  /\ pc' = "repeat"
  /\ UNCHANGED <<callVars, urgencyScore, priorityLevel, visibleTasks, rejectedBy,
                 readUnder, rulesRun, now, windowPerspective, visibleProjects,
                 stdout, calls, result>>

\* a low task over its quota goes to the medium bucket while there is room
CollectSpillMut ==
  /\ pc = "collect"
  /\ LET info == TaskInfo(i, urgencyScore, priorityLevel)
     IN  IF priorityLevel = "high" /\ highCount < maxHighPriority
           THEN /\ highCount' = highCount + 1
                /\ highPriorityTasks' = Append(highPriorityTasks, info)
                /\ UNCHANGED <<mediumCount, lowCount, mediumPriorityTasks,
                               lowPriorityTasks>>
         ELSE IF (priorityLevel = "medium" \/ (priorityLevel = "low"
                                                /\ lowCount >= maxLowPriority))
                   /\ mediumCount < maxMediumPriority
           THEN /\ mediumCount' = mediumCount + 1
                /\ mediumPriorityTasks' = Append(mediumPriorityTasks, info)
                /\ UNCHANGED <<highCount, lowCount, highPriorityTasks,
                               lowPriorityTasks>>
         ELSE IF priorityLevel = "low" /\ lowCount < maxLowPriority
           THEN /\ lowCount' = lowCount + 1
                /\ lowPriorityTasks' = Append(lowPriorityTasks, info)
                /\ UNCHANGED <<highCount, mediumCount, highPriorityTasks,
                               mediumPriorityTasks>>
         ELSE UNCHANGED <<highCount, mediumCount, lowCount, highPriorityTasks,
                          mediumPriorityTasks, lowPriorityTasks>>
  /\ i' = i + 1
  /\ pc' = "repeat"
  /\ UNCHANGED <<callVars, urgencyScore, priorityLevel, visibleTasks, rejectedBy,
                 readUnder, rulesRun, now, windowPerspective, visibleProjects,
                 stdout, calls, result>>

\* set shouldAddTask to false ... if shouldAddTask then ... end if
Collect ==
  /\ pc = "collect"
  /\ LET info == TaskInfo(i, urgencyScore, priorityLevel)
     IN  IF priorityLevel = "high" /\ highCount < maxHighPriority
           THEN /\ highCount' = highCount + 1
                /\ highPriorityTasks' = Append(highPriorityTasks, info)
                /\ UNCHANGED <<mediumCount, lowCount, mediumPriorityTasks,
                               lowPriorityTasks>>
         ELSE IF priorityLevel = "medium" /\ mediumCount < maxMediumPriority
           THEN /\ mediumCount' = mediumCount + 1
                /\ mediumPriorityTasks' = Append(mediumPriorityTasks, info)
                /\ UNCHANGED <<highCount, lowCount, highPriorityTasks,
                               lowPriorityTasks>>
         ELSE IF priorityLevel = "low" /\ lowCount < maxLowPriority
           THEN /\ lowCount' = lowCount + 1
                /\ lowPriorityTasks' = Append(lowPriorityTasks, info)
                /\ UNCHANGED <<highCount, mediumCount, highPriorityTasks,
                               mediumPriorityTasks>>
         ELSE UNCHANGED <<highCount, mediumCount, lowCount, highPriorityTasks,
                          mediumPriorityTasks, lowPriorityTasks>>
  /\ i' = i + 1
  /\ pc' = "repeat"
  /\ UNCHANGED <<callVars, urgencyScore, priorityLevel, visibleTasks, rejectedBy,
                 readUnder, rulesRun, now, windowPerspective, visibleProjects,
                 stdout, calls, result>>

\* plain script: repeat with aTask in allTasks, one record
PlainRepeat ==
  /\ pc = "plainRepeat"
  /\ IF i > Len(allTasks)
       THEN /\ pc' = "projects"
            /\ UNCHANGED <<i, rejectedBy, readUnder, visibleTasks>>
       ELSE /\ rejectedBy' = [rejectedBy EXCEPT ![i] =
                                IF PlainShouldInclude(allTasks[i])
                                  THEN "none" ELSE "shouldInclude"]
            /\ readUnder' = [readUnder EXCEPT ![i] = windowPerspective]
            /\ visibleTasks' = IF PlainShouldInclude(allTasks[i])
                                 THEN Append(visibleTasks, PlainTaskInfo(i))
                                 ELSE visibleTasks
            /\ i' = i + 1
            /\ pc' = "plainRepeat"
  /\ UNCHANGED <<callVars, urgencyScore, priorityLevel, highCount, mediumCount,
                 lowCount, highPriorityTasks, mediumPriorityTasks,
                 lowPriorityTasks, rulesRun, now, windowPerspective,
                 visibleProjects, stdout, calls, result>>

\* plain script: hideCompleted and (projectCompleted or projectDropped)
PlainProjectVisible(k) ==
  ~(hideCompleted /\ allProjects[k].status \in {"done", "dropped"})

\* repeat with aProject in allProjects
Projects ==
  /\ pc = "projects"
  /\ visibleProjects' =
       IF impl = "optimized"
         THEN [k \in 1..Len(allProjects) |-> ProjectInfo(k)]
         ELSE LET kept == SelectSeq([k \in 1..Len(allProjects) |-> k],
                                    PlainProjectVisible)
              IN  [k \in 1..Len(kept) |-> ProjectInfo(kept[k])]
  /\ pc' = "output"
  /\ UNCHANGED <<callVars, scanVars, now, windowPerspective, stdout, calls, result>>

StatsMut ==
  [highPriority |-> highCount, mediumPriority |-> mediumCount,
   lowPriority |-> lowCount,
   totalFiltered |-> Cardinality({k \in evaluated : rejectedBy[k] = "none"}),
   maxResults |-> maxResults]

\* the stats of the optimized output
Stats ==
  [highPriority |-> highCount, mediumPriority |-> mediumCount,
   lowPriority |-> lowCount,
   totalFiltered |-> highCount + mediumCount + lowCount,
   maxResults |-> maxResults]

\* set output to "{\"success\":true,...}" ; return output
Output ==
  /\ pc = "output"
  /\ stdout' =
       IF impl = "optimized"
         THEN [success |-> TRUE, perspective |-> params.perspectiveName,
               tasks |-> Concat(prioritizeUrgent, highPriorityTasks,
                                mediumPriorityTasks, lowPriorityTasks),
               projects |-> visibleProjects, stats |-> Stats]
         ELSE [success |-> TRUE, perspective |-> params.perspectiveName,
               tasks |-> visibleTasks, projects |-> visibleProjects]
  /\ pc' = "parse"
  /\ UNCHANGED <<callVars, scanVars, now, windowPerspective, visibleProjects,
                 calls, result>>

\* const result = JSON.parse(stdout.trim()); ... return
Return ==
  /\ pc = "parse"
  /\ result' = IF impl = "optimized" THEN Resolve(stdout) ELSE PlainResolve(stdout)
  /\ pc' = "done"
  /\ UNCHANGED <<callVars, scanVars, now, windowPerspective, visibleProjects,
                 stdout, calls>>

NextOptimized ==
  \/ Invoke \/ ExecFails \/ SetPerspective \/ ScriptFails
  \/ Repeat \/ Score \/ Classify \/ Collect
  \/ Projects \/ Output \/ Return

Next == NextOptimized \/ PlainRepeat

Spec == Init /\ [][Next]_vars

-----------------------------------------------------------------------------
(* Two calls at once.  Each execAsync starts an osascript process of its   *)
(* own and nothing in getDataByPerspective waits for another call; the     *)
(* statements of the two scripts reach OmniFocus one by one, in any order. *)
(* Of the other call the model keeps its position and what it writes: the  *)
(* perspective of the front window (its scan only reads the document).     *)

PeerPerspectives == {"Inbox", "Today", "Flagged"}

\* what a step of the other call leaves alone
ownVars == <<impl, params, docTasks, docProjects, previous, scanVars, now, pc,
             visibleProjects, stdout, calls, result>>

\* the other call: await execAsync(`osascript -e '...'`)
PeerInvoke ==
  /\ peer.pc = "idle"
  /\ peer' = [peer EXCEPT !.pc = "osascript"]
  /\ UNCHANGED <<ownVars, windowPerspective>>

\* the other call: set perspective to ... of its script
PeerSetPerspective ==
  /\ peer.pc = "osascript"
  /\ windowPerspective' = peer.perspectiveName
  /\ peer' = [peer EXCEPT !.pc = "scan"]
  /\ UNCHANGED ownVars

\* the other call: its loops, its output, its return
PeerReturn ==
  /\ peer.pc = "scan"
  /\ peer' = [peer EXCEPT !.pc = "done"]
  /\ UNCHANGED <<ownVars, windowPerspective>>

InitConcurrent ==
  /\ now = 0
  /\ impl \in {"optimized", "plain"}
  /\ params \in {[DefaultParams EXCEPT !.perspectiveName = n] : n \in PerspectiveNames}
  /\ docTasks \in StreamsOf({PlainTask, HighTask}, MaxTasks - 2)
  /\ peer \in {[pc |-> "idle", perspectiveName |-> n] : n \in PeerPerspectives}
  /\ InitCall

NextConcurrent == Next \/ PeerInvoke \/ PeerSetPerspective \/ PeerReturn

SpecConcurrent == InitConcurrent /\ [][NextConcurrent]_vars

-----------------------------------------------------------------------------
(* The same query twice.  After a call has returned, the handler is called *)
(* again on the same document at the same time, with other withTags and    *)
(* hideRecurringDuplicates and everything else as before.                  *)

TagLists == {Undefined, Some(<<>>), Some(<<"a">>), Some(<<"b">>)}
Toggles == {Undefined, Some(TRUE), Some(FALSE)}

\* the params that differ from p in withTags or hideRecurringDuplicates only
Variants(p) ==
  {[p EXCEPT !.withTags = w, !.hideRecurringDuplicates = h] :
     w \in TagLists, h \in Toggles} \ {p}

TwinTasks ==
  { PlainTask, [PlainTask EXCEPT !.tags = <<"a">>],
    [HighTask EXCEPT !.tags = <<"a", "b">>], [DoneTask EXCEPT !.tags = <<"b">>] }

\* const result = await getDataByPerspective({...}), once more, with params
\* of the set P
Recall(P) ==
  /\ pc = "done"
  /\ previous = NoOutput
  /\ previous' = [params |-> params, result |-> result]
  /\ params' \in P
  /\ pc' = "idle"
  /\ i' = 1
  /\ urgencyScore' = 0
  /\ priorityLevel' = "low"
  /\ highCount' = 0 /\ mediumCount' = 0 /\ lowCount' = 0
  /\ highPriorityTasks' = <<>> /\ mediumPriorityTasks' = <<>>
  /\ lowPriorityTasks' = <<>>
  /\ visibleTasks' = <<>>
  /\ visibleProjects' = <<>>
  /\ rejectedBy' = [k \in 1..Len(docTasks) |-> "unseen"]
  /\ readUnder' = [k \in 1..Len(docTasks) |-> "unread"]
  /\ rulesRun' = [k \in 1..Len(docTasks) |-> <<>>]
  /\ stdout' = NoOutput
  /\ calls' = 0
  /\ result' = NoOutput
  /\ UNCHANGED <<impl, docTasks, docProjects, peer, now, windowPerspective>>

Again == Recall(Variants(params))

InitTwin ==
  /\ now = MaxNow
  /\ impl \in {"optimized", "plain"}
  /\ params \in {[DefaultParams EXCEPT !.withTags = w, !.hideRecurringDuplicates = h,
                                       !.maxResults = b] :
                   w \in TagLists, h \in Toggles, b \in {Undefined, Some(3)}}
  /\ docTasks \in StreamsOf(TwinTasks, MaxTasks - 2)
  /\ InitCall
  /\ peer = Alone

NextTwin == Next \/ Again

SpecTwin == InitTwin /\ [][NextTwin]_vars

-----------------------------------------------------------------------------
(* The same query under two perspectives: after a call has returned, the   *)
(* handler is called again on the same document at the same time, with     *)
(* another perspectiveName and everything else as before.                  *)

TwinPerspectives == {"Inbox", "Flagged", "Today", "Nope"}

\* the params that differ from p in perspectiveName only
PerspectiveVariants(p) ==
  {[p EXCEPT !.perspectiveName = n] : n \in TwinPerspectives} \ {p}

\* tasks of the inbox, flagged ones, one of a project, a completed one
ViewTasks ==
  { PlainTask, HighTask, DoneTask, [PlainTask EXCEPT !.project = Some("Work")] }

AgainPerspective == Recall(PerspectiveVariants(params))

InitViews ==
  /\ now = MaxNow
  /\ impl \in {"optimized", "plain"}
  /\ params \in {[DefaultParams EXCEPT !.perspectiveName = n, !.maxResults = b] :
                   n \in TwinPerspectives, b \in {Undefined, Some(3)}}
  /\ docTasks \in StreamsOf(ViewTasks, MaxTasks - 2)
  /\ InitCall
  /\ peer = Alone

NextViews == Next \/ AgainPerspective

SpecViews == InitViews /\ [][NextViews]_vars

-----------------------------------------------------------------------------
(* The smallest budgets: 1 and 2, whose capacities are all 0, next to 3    *)
(* and 5, the first budgets with room for a task.                          *)

SmallBudgets == {1, 2, 3, 5}

InitBudget ==
  /\ now = 0
  /\ impl = "optimized"
  /\ params \in {[DefaultParams EXCEPT !.maxResults = Some(b), !.prioritizeUrgent = u] :
                   b \in SmallBudgets, u \in {Undefined, Some(FALSE)}}
  /\ docTasks \in StreamsOf(QuotaTasks, MaxTasks)
  /\ InitCall
  /\ peer = Alone

SpecBudget == InitBudget /\ [][NextOptimized]_vars

-----------------------------------------------------------------------------
(* The scenario of the spec: budget 10, urgent first, 3 flagged overdue     *)
(* tasks, 5 tasks due tomorrow, 4 tasks with nothing, in any interleaving. *)
(* The clock stands still at ScenarioNow while the scenario runs: "overdue" *)
(* is due half a day before, "tomorrow" a day and a half after.            *)

ScenarioLength == 3 + 5 + 4
ScenarioNow == MaxNow

ScenarioKinds ==
  { s \in [1..ScenarioLength -> {"overdue", "tomorrow", "nothing"}] :
      /\ Cardinality({k \in 1..ScenarioLength : s[k] = "overdue"}) = 3
      /\ Cardinality({k \in 1..ScenarioLength : s[k] = "tomorrow"}) = 5 }

ScenarioTask(kind) ==
  CASE kind = "overdue" ->
         [PlainTask EXCEPT !.flagged = TRUE, !.dueDate = Some(ScenarioNow - 1)]
    [] kind = "tomorrow" -> [PlainTask EXCEPT !.dueDate = Some(ScenarioNow + 3)]
    [] OTHER -> PlainTask

InitScenario ==
  /\ now = ScenarioNow
  /\ impl = "optimized"
  /\ params = [DefaultParams EXCEPT !.maxResults = Some(10)]
  /\ \E s \in ScenarioKinds :
       docTasks = [k \in 1..ScenarioLength |-> ScenarioTask(s[k])]
  /\ InitCall
  /\ peer = Alone

SpecScenario == InitScenario /\ [][NextOptimized]_vars

-----------------------------------------------------------------------------
(* Properties *)

\* the optimized script has set its counters: it scans, or it has scanned
scanning ==
  /\ impl = "optimized"
  /\ \/ pc \in {"repeat", "score", "classify", "collect", "projects", "output"}
     \/ pc \in {"parse", "done"} /\ stdout # NoOutput /\ stdout.success
succeeded == pc = "done" /\ result # NoOutput /\ result.success
buckets == <<highPriorityTasks, mediumPriorityTasks, lowPriorityTasks>>
counters == <<highCount, mediumCount, lowCount>>
Ids(ts) == {ts[k].id : k \in 1..Len(ts)}

\* floor(0.4 * B) and floor(0.2 * B), B the budget of the call
Floor04 == (4 * maxResults) \div 10
Floor02 == (2 * maxResults) \div 10

\* C1: for every budget B, in every state of the scan and in the result, the
\* high, medium and low counters are at most floor(0.4 B), floor(0.4 B) and
\* floor(0.2 B), the three capacities sum to at most B, and at most B tasks
\* are returned.
C1_QuotaBounds ==
  scanning =>
    /\ highCount <= Floor04
    /\ mediumCount <= Floor04
    /\ lowCount <= Floor02
    /\ maxHighPriority + maxMediumPriority + maxLowPriority <= maxResults
    /\ (succeeded => Len(result.tasks) <= maxResults)

\* C1 for the budgets of at least 0, which the scan of the code does respect
C1_QuotaBoundsFromZero == maxResults >= 0 => C1_QuotaBounds

\* C2: every task of the result satisfies every enabled predicate: project
\* name equality, flagged only, minimum duration, maximum duration, due date
\* presence, tag membership, hide completed.  (Names are compared as the
\* scripts compare text, a bound of 0 counts as not enabled and a task
\* without estimated duration as within the maximum: what is left to fail
\* is the rest of the claim.)
C2_ResultSatisfiesPredicates ==
  succeeded =>
    \A k \in 1..Len(result.tasks) :
      LET t == docTasks[result.tasks[k].id]
      IN  /\ escapedProjectName # "" =>
               IsVal(t.project) /\ Lower(Val(t.project)) = Lower(escapedProjectName)
          /\ flaggedOnly => t.flagged
          /\ Truthy(params.minEstimatedMinutes) =>
               IsVal(t.estimatedMinutes)
                 /\ Val(t.estimatedMinutes) >= Val(params.minEstimatedMinutes)
          /\ Truthy(params.maxEstimatedMinutes) /\ IsVal(t.estimatedMinutes) =>
               Val(t.estimatedMinutes) <= Val(params.maxEstimatedMinutes)
          /\ IsVal(params.withDueDate) /\ t.dueDate # Unavailable =>
               (Val(params.withDueDate) <=> IsVal(t.dueDate))
          /\ withTags # <<>> =>
               \E a \in 1..Len(withTags), b \in 1..Len(t.tags) : withTags[a] = t.tags[b]
          /\ hideCompleted => ~t.completed /\ ~t.dropped

\* C3: once the three counters have reached their capacities the scan stops:
\* no later record is evaluated, scored or added; the records evaluated are
\* a prefix of the stream, never more than its length.
C3_EarlyTermination ==
  /\ [](scanning =>
          /\ Cardinality(evaluated) <= Len(docTasks)
          /\ evaluated = 1..Cardinality(evaluated)
          /\ (highCount >= Floor04 /\ mediumCount >= Floor04 /\ lowCount >= Floor02
                /\ pc \in {"repeat", "projects", "output", "parse", "done"}
                =>  /\ i \notin evaluated
                    /\ \A k \in evaluated : k < i))
  /\ [][scanning /\ pc = "repeat"
          /\ highCount >= Floor04 /\ mediumCount >= Floor04 /\ lowCount >= Floor02
          => /\ pc' = "projects"
             /\ rejectedBy' = rejectedBy
             /\ buckets' = buckets /\ counters' = counters]_vars

\* C3 happens: the scan has stopped before a record that the filters pass
C3_Witness ==
  /\ scanning /\ pc = "projects"
  /\ i <= Len(docTasks) /\ ShouldInclude(docTasks[i])
  /\ evaluated = 1..(i - 1) /\ i > 1
  /\ highCount > 0

Rank(level) == CASE level = "high" -> 1 [] level = "medium" -> 2 [] OTHER -> 3

Returned == IF succeeded THEN Ids(result.tasks) ELSE {}

\* record k has been evaluated and the filters have rejected it
Rejected(k) == k \in evaluated /\ rejectedBy[k] # "none"

\* C5, as claimed: under an enabled predicate that needs a field (project
\* for the project name, estimated duration for the minimum and for the
\* maximum duration, due date for due date presence), a task without the
\* field is rejected and is not in the result.
C5_MissingFieldRejected ==
  \A k \in 1..Len(docTasks) :
    LET t == docTasks[k]
        lacks == \/ escapedProjectName # "" /\ ~IsVal(t.project)
                 \/ Truthy(params.minEstimatedMinutes) /\ ~IsVal(t.estimatedMinutes)
                 \/ Truthy(params.maxEstimatedMinutes) /\ ~IsVal(t.estimatedMinutes)
                 \/ params.withDueDate = Some(TRUE) /\ ~IsVal(t.dueDate)
    IN  lacks => /\ k \in evaluated => Rejected(k)
                 /\ k \notin Returned

\* C5, amended: the same for the project name, the minimum duration and due
\* date presence; the maximum duration never rejects a task for having no
\* estimated duration.
C5_MissingFieldRejectedButMax ==
  \A k \in 1..Len(docTasks) :
    LET t == docTasks[k]
        lacks == \/ escapedProjectName # "" /\ ~IsVal(t.project)
                 \/ Truthy(params.minEstimatedMinutes) /\ ~IsVal(t.estimatedMinutes)
                 \/ params.withDueDate = Some(TRUE) /\ ~IsVal(t.dueDate)
    IN  /\ lacks => /\ k \in evaluated => Rejected(k)
                    /\ k \notin Returned
        /\ rejectedBy[k] = "maxEstimatedMinutes" => IsVal(t.estimatedMinutes)

\* C5 happens: a task without estimated duration has been rejected by the
\* minimum duration
C5_Witness ==
  /\ impl = "optimized" /\ pc = "done"
  /\ Len(docTasks) = 1 /\ ~IsVal(docTasks[1].estimatedMinutes)
  /\ rejectedBy[1] = "minEstimatedMinutes"

\* C6, as claimed: when minEstimatedMinutes is given, a task without
\* estimated duration and a task below the bound are rejected, on both paths.
C6_MinGivenRejects ==
  IsVal(params.minEstimatedMinutes) =>
    \A k \in 1..Len(docTasks) :
      LET t == docTasks[k]
      IN  (~IsVal(t.estimatedMinutes)
             \/ Val(t.estimatedMinutes) < Val(params.minEstimatedMinutes))
          => /\ k \in evaluated => Rejected(k)
             /\ k \notin Ids(visibleTasks)
             /\ k \notin Returned

\* C6, amended: the same when minEstimatedMinutes is given and is not 0
C6_MinNotZeroRejects ==
  IsVal(params.minEstimatedMinutes) /\ Val(params.minEstimatedMinutes) # 0 =>
    \A k \in 1..Len(docTasks) :
      LET t == docTasks[k]
      IN  (~IsVal(t.estimatedMinutes)
             \/ Val(t.estimatedMinutes) < Val(params.minEstimatedMinutes))
          => /\ k \in evaluated => Rejected(k)
             /\ k \notin Ids(visibleTasks)
             /\ k \notin Returned

\* C6 happens: the plain path has rejected a task without estimated duration
\* under a minimum of 30
C6_Witness ==
  /\ impl = "plain" /\ pc = "done" /\ result # NoOutput /\ result.success
  /\ params.minEstimatedMinutes = Some(30)
  /\ Len(docTasks) = 1 /\ docTasks[1].estimatedMinutes = Missing
  /\ Rejected(1) /\ result.tasks = <<>>

\* C7: the urgency score is the sum of +100 if flagged, one band of the days
\* d until due (d < 0: 200; 0 <= d < 1: 150; 1 <= d < 2: 100; 2 <= d < 8: 50;
\* else 0) and one band of the duration (<= 15: 30; <= 30: 20; <= 60: 10;
\* else 0): an integer from 0 to 330.  d = diff / days, in half days.
C7_UrgencyScore ==
  /\ scanning /\ pc = "classify" =>
       LET t == docTasks[i]
           diff == Val(t.dueDate) - now
           m == Val(t.estimatedMinutes)
           flag == IF t.flagged THEN 100 ELSE 0
           due == IF ~IsVal(t.dueDate) THEN 0
                  ELSE IF diff < 0 THEN 200
                  ELSE IF 0 <= diff /\ diff < 2 THEN 150
                  ELSE IF 2 <= diff /\ diff < 4 THEN 100
                  ELSE IF 4 <= diff /\ diff < 16 THEN 50
                  ELSE 0
           dur == IF ~IsVal(t.estimatedMinutes) THEN 0
                  ELSE IF m <= 15 THEN 30
                  ELSE IF m <= 30 THEN 20
                  ELSE IF m <= 60 THEN 10
                  ELSE 0
       IN  urgencyScore = flag + due + dur
  /\ urgencyScore \in 0..330
  /\ \A b \in 1..3 : \A k \in 1..Len(buckets[b]) :
       buckets[b][k].urgencyScore \in 0..330

\* C7 happens: a flagged task due in a day and a half with 16 minutes scores
\* 100 + 100 + 20
C7_Witness ==
  /\ scanning /\ pc = "classify" /\ urgencyScore = 220
  /\ docTasks[i].flagged /\ docTasks[i].dueDate = Some(3)
  /\ docTasks[i].estimatedMinutes = Some(16)

\* the level of a score, by the thresholds of the claim
LevelOf(score) ==
  IF score >= 150 THEN "high"
  ELSE IF 50 <= score /\ score < 150 THEN "medium"
  ELSE "low"

\* C8: the level depends on the score alone: >= 150 high, 50..149 medium,
\* < 50 low; each task is in the bucket of the level of its own score.
C8_PriorityTier ==
  /\ scanning /\ pc = "collect" => priorityLevel = LevelOf(urgencyScore)
  /\ \A k \in 1..Len(highPriorityTasks) :
       /\ highPriorityTasks[k].urgencyScore >= 150
       /\ highPriorityTasks[k].priorityLevel = "high"
  /\ \A k \in 1..Len(mediumPriorityTasks) :
       /\ mediumPriorityTasks[k].urgencyScore >= 50
       /\ mediumPriorityTasks[k].urgencyScore < 150
       /\ mediumPriorityTasks[k].priorityLevel = "medium"
  /\ \A k \in 1..Len(lowPriorityTasks) :
       /\ lowPriorityTasks[k].urgencyScore < 50
       /\ lowPriorityTasks[k].priorityLevel = "low"
  /\ succeeded /\ impl = "optimized" =>
       \A k \in 1..Len(result.tasks) :
         LevelOf(result.tasks[k].urgencyScore) = stdout.tasks[k].priorityLevel

\* C8 happens: a task of score exactly 150 is returned from the high bucket
C8_Witness ==
  /\ succeeded /\ impl = "optimized"
  /\ Len(highPriorityTasks) = 1 /\ highPriorityTasks[1].urgencyScore = 150
  /\ Len(result.tasks) = 1 /\ result.tasks[1].urgencyScore = 150

\* C9: in the scenario, whatever the interleaving, a successful call returns
\* 3 high, 4 medium and 2 low tasks in that order, 9 in all, with stats
\* 3, 4, 2 and totalFiltered 9.
C9_Scenario ==
  succeeded =>
    /\ Len(result.tasks) = 9
    /\ \A k \in 1..3 : /\ result.tasks[k].urgencyScore >= 150
                       /\ docTasks[result.tasks[k].id] = ScenarioTask("overdue")
    /\ \A k \in 4..7 : /\ result.tasks[k].urgencyScore = 100
                       /\ docTasks[result.tasks[k].id] = ScenarioTask("tomorrow")
    /\ \A k \in 8..9 : /\ result.tasks[k].urgencyScore < 50
                       /\ docTasks[result.tasks[k].id] = ScenarioTask("nothing")
    /\ result.stats.highPriority = 3
    /\ result.stats.mediumPriority = 4
    /\ result.stats.lowPriority = 2
    /\ result.stats.totalFiltered = 9

\* C9 happens: the scenario with the nothing tasks first and the overdue
\* tasks last has returned
C9_Witness ==
  /\ succeeded /\ Len(docTasks) = ScenarioLength
  /\ \A k \in 1..4 : docTasks[k] = ScenarioTask("nothing")
  /\ \A k \in 10..12 : docTasks[k] = ScenarioTask("overdue")
  /\ Len(result.tasks) = 9

\* the script has returned an error object that parses
providerError == stdout # NoOutput /\ ~stdout.success /\ ~BreaksJson(stdout.error)

\* C10: when the provider returns a parseable object with success false and
\* an error message, the call returns success false with exactly that
\* message, without tasks, projects or stats, and calls the provider once.
C10_ProviderError ==
  /\ calls <= 1
  /\ pc = "done" /\ providerError =>
       /\ result.success = FALSE
       /\ result.error = stdout.error
       /\ DOMAIN result = {"success", "error"}
       /\ calls = 1

\* C10 happens: "Perspective not found" has been returned
C10_Witness ==
  /\ pc = "done" /\ providerError /\ impl = "optimized"
  /\ stdout.error = <<"Perspective not found">>
  /\ result = [success |-> FALSE, error |-> <<"Perspective not found">>]

\* text contains part, as a run of pieces
Includes(text, part) ==
  \E k \in 0..(Len(text) - Len(part)) : SubSeq(text, k + 1, k + Len(part)) = part

\* the script's output has been read and JSON.parse has thrown on it
malformed == pc = "done" /\ stdout # NoOutput /\ Unparseable(stdout)

\* the results a provider-reported error gives
ProviderFailures == {Failure([success |-> FALSE, error |-> e]) :
                       e \in {m \in ErrMsgs : ~BreaksJson(m)}}

\* C11: when the output of the provider cannot be parsed, the call returns a
\* failure that is not one of a provider-reported error, and whose error
\* message includes the raw output.
C11_MalformedResponse ==
  malformed =>
    /\ result.success = FALSE
    /\ result \notin ProviderFailures
    /\ Includes(result.error, StdoutText(stdout))

\* C11 on the plain path, whose message is "Failed to parse result: " and
\* the output
C11_PlainMalformedResponse == impl = "plain" => C11_MalformedResponse

\* C12: a call whose maxResults is 0 or negative never invokes the provider,
\* and what it returns is a failure.
C12_BudgetValidated ==
  maxResults <= 0 =>
    /\ calls = 0
    /\ pc \notin {"osascript", "repeat", "score", "classify", "collect",
                  "projects", "output", "parse"}
    /\ (pc = "done" => result.success = FALSE)

\* C13: the projects returned are filtered by hideCompleted alone: when it is
\* true, no done or dropped project and every other project; when it is
\* false, every project; in the order of the document, without score or
\* priority level, whatever the budget.
C13_ProjectsHideCompleted ==
  succeeded =>
    LET shown == [k \in 1..Len(result.projects) |-> result.projects[k].id]
        all == [k \in 1..Len(docProjects) |-> k]
        Open(k) == docProjects[k].status \notin {"done", "dropped"}
    IN  /\ hideCompleted => shown = SelectSeq(all, Open)
        /\ ~hideCompleted => shown = all
        /\ \A k \in 1..Len(result.projects) :
             /\ result.projects[k].status = docProjects[shown[k]].status
             /\ DOMAIN result.projects[k]
                  \cap {"urgencyScore", "priorityLevel"} = {}

\* C13 on the plain path, which does test hideCompleted on the projects
C13_PlainProjectsHideCompleted == impl = "plain" => C13_ProjectsHideCompleted

\* the number of returned tasks whose score is of the level
Tier(level) ==
  Cardinality({k \in 1..Len(result.tasks) :
                 LevelOf(result.tasks[k].urgencyScore) = level})

\* C14: in every successful result of the quota-bounded path (the one with
\* stats), highPriority, mediumPriority and lowPriority are the numbers of
\* returned tasks of each level, totalFiltered is their sum and the length of
\* the task list, and maxResults is the budget given, 500 when none was.
C14_StatsConsistent ==
  succeeded /\ impl = "optimized" =>
    /\ result.stats.highPriority = Tier("high")
    /\ result.stats.mediumPriority = Tier("medium")
    /\ result.stats.lowPriority = Tier("low")
    /\ result.stats.totalFiltered =
         result.stats.highPriority + result.stats.mediumPriority
           + result.stats.lowPriority
    /\ result.stats.totalFiltered = Len(result.tasks)
    /\ result.stats.maxResults =
         IF IsVal(params.maxResults) THEN Val(params.maxResults) ELSE 500

\* C14 happens: budget 5, four tasks pass the filters and one of them, a low
\* one, is over its quota: stats 1, 1, 1, total 3
C14_Witness ==
  /\ succeeded /\ impl = "optimized" /\ params.maxResults = Some(5)
  /\ Cardinality({k \in evaluated : rejectedBy[k] = "none"}) = 4
  /\ result.stats = [highPriority |-> 1, mediumPriority |-> 1, lowPriority |-> 1,
                     totalFiltered |-> 3, maxResults |-> 5]
  /\ Len(result.tasks) = 3

\* C15: nothing serializes the calls: whatever the position of the other
\* call, a call that has not started can start, one that is about to set the
\* perspective of the window can set it, and one that scans can read its next
\* record; a record is read under whatever perspective the window then has.
C15_NoSerialization ==
  /\ pc = "idle" => ENABLED Invoke
  /\ peer.pc = "idle" => ENABLED PeerInvoke
  /\ pc = "osascript"
       /\ params.perspectiveName \in BuiltInPerspectives \cup CustomPerspectives
       => ENABLED SetPerspective
  /\ peer.pc = "osascript" => ENABLED PeerSetPerspective
  /\ pc = "repeat" => ENABLED Repeat
  /\ pc = "plainRepeat" => ENABLED PlainRepeat
  /\ \A k \in 1..Len(docTasks) :
       readUnder[k] \in {"unread", params.perspectiveName, peer.perspectiveName}

\* C15 happens: the call has set the window to Inbox (it read its first
\* record under it), the other call has then set it to Flagged, and the call
\* has read its second record under Flagged and returned
C15_Witness ==
  /\ impl = "optimized" /\ succeeded
  /\ params.perspectiveName = "Inbox" /\ peer.perspectiveName = "Flagged"
  /\ Len(docTasks) = 2
  /\ readUnder = <<"Inbox", "Flagged">>
  /\ Len(result.tasks) = 2

\* the canonical order of the rules
Canon == <<"projectName", "flaggedOnly", "minEstimatedMinutes",
           "maxEstimatedMinutes", "withDueDate", "withTags", "hideCompleted">>

\* the criterion of the rule is set (a bound of 0 counts as not set)
RuleSet(r) ==
  CASE r = "projectName" -> IsVal(params.projectName) /\ Val(params.projectName) # ""
    [] r = "flaggedOnly" -> params.flaggedOnly = Some(TRUE)
    [] r = "minEstimatedMinutes" -> Truthy(params.minEstimatedMinutes)
    [] r = "maxEstimatedMinutes" -> Truthy(params.maxEstimatedMinutes)
    [] r = "withDueDate" -> IsVal(params.withDueDate)
    [] r = "withTags" -> IsVal(params.withTags) /\ Val(params.withTags) # <<>>
    [] r = "hideCompleted" -> params.hideCompleted # Some(FALSE)

\* the predicate of the rule on the task (names compared without case, a
\* task without estimated duration within the maximum, a due date that
\* cannot be read as the script takes it)
RuleHolds(r, t) ==
  CASE r = "projectName" ->
         IsVal(t.project) /\ Lower(Val(t.project)) = Lower(Val(params.projectName))
    [] r = "flaggedOnly" -> t.flagged
    [] r = "minEstimatedMinutes" ->
         IsVal(t.estimatedMinutes)
           /\ Val(t.estimatedMinutes) >= Val(params.minEstimatedMinutes)
    [] r = "maxEstimatedMinutes" ->
         IsVal(t.estimatedMinutes)
           => Val(t.estimatedMinutes) <= Val(params.maxEstimatedMinutes)
    [] r = "withDueDate" ->
         IF t.dueDate = Unavailable THEN ~Val(params.withDueDate)
         ELSE Val(params.withDueDate) <=> IsVal(t.dueDate)
    [] r = "withTags" ->
         \E a \in 1..Len(Val(params.withTags)), b \in 1..Len(t.tags) :
           Val(params.withTags)[a] = t.tags[b]
    [] r = "hideCompleted" -> ~t.completed /\ ~t.dropped

\* the rules of the order that are set, up to and with the first that is
\* false on the task
RECURSIVE RulesDue(_, _, _)
RulesDue(order, t, k) ==
  IF k > Len(order) THEN <<>>
  ELSE IF RuleSet(order[k])
    THEN IF RuleHolds(order[k], t)
           THEN <<order[k]>> \o RulesDue(order, t, k + 1)
           ELSE <<order[k]>>
    ELSE RulesDue(order, t, k + 1)

\* what the order makes of the task: the rule that rejects it, or "none"
Verdict(order, t) ==
  LET run == RulesDue(order, t, 1)
  IN  IF run # <<>> /\ ~RuleHolds(run[Len(run)], t) THEN run[Len(run)] ELSE "none"

\* C16: for each task the optimized scan has evaluated, the rules evaluated
\* are the set rules of the canonical order, in that order, up to and with
\* the first whose predicate is false; that rule is the one that rejects the
\* task; no unset rule is evaluated.
C16_CanonicalOrder ==
  impl = "optimized" =>
    \A k \in evaluated :
      /\ rulesRun[k] = RulesDue(Canon, docTasks[k], 1)
      /\ rejectedBy[k] = Verdict(Canon, docTasks[k])
      /\ \A n \in 1..Len(rulesRun[k]) : RuleSet(rulesRun[k][n])

\* C16 for the six rules the script has: the canonical order without the
\* tag membership
C16_OrderOfTheSixRules ==
  impl = "optimized" =>
    \A k \in evaluated :
      /\ rulesRun[k] = RulesDue(Blocks, docTasks[k], 1)
      /\ rejectedBy[k] = Verdict(Blocks, docTasks[k])
      /\ \A n \in 1..Len(rulesRun[k]) : RuleSet(rulesRun[k][n])

\* the capacities of the claims, by the rank of the level
Caps == <<Floor04, Floor04, Floor02>>

\* C17: a task that has passed the filters is included iff the counter of
\* the level of its score is below the capacity of that level when it is
\* scanned; then that counter alone grows by one and the task is appended to
\* that bucket alone; otherwise no counter and no bucket changes, whatever
\* room the other levels have.
C17_QuotaInclusion ==
  [][pc = "collect" /\ impl = "optimized" =>
       LET n == Rank(LevelOf(urgencyScore))
           below == counters[n] < Caps[n]
       IN  /\ below => /\ counters'[n] = counters[n] + 1
                       /\ Len(buckets'[n]) = Len(buckets[n]) + 1
                       /\ SubSeq(buckets'[n], 1, Len(buckets[n])) = buckets[n]
                       /\ buckets'[n][Len(buckets'[n])].id = i
           /\ ~below => counters' = counters /\ buckets' = buckets
           /\ \A m \in 1..3 :
                m # n => counters'[m] = counters[m] /\ buckets'[m] = buckets[m]
           /\ (\E m \in 1..3 : i \in Ids(buckets'[m])) <=> below
           /\ rejectedBy[i] = "none"]_vars

\* C17 happens: under budget 5 the second low task has been dropped, and the
\* high and medium buckets are still empty
C17_Witness ==
  /\ scanning /\ pc = "repeat" /\ params.maxResults = Some(5)
  /\ i = 3 /\ rejectedBy[1] = "none" /\ rejectedBy[2] = "none"
  /\ Ids(lowPriorityTasks) = {1} /\ lowCount = 1
  /\ highCount = 0 /\ mediumCount = 0 /\ Floor04 = 2

\* the state of record k in the optimized scan.  (Scanned is the entry of
\* the loop body: the record leaves it within the step that evaluates the
\* filters.)
RecordState(k) ==
  IF rejectedBy[k] = "unseen" THEN "Unvisited"
  ELSE IF rejectedBy[k] # "none" THEN "Rejected"
  ELSE IF k = i /\ pc = "score" THEN "Accepted"
  ELSE IF k = i /\ pc = "classify" THEN "Scored"
  ELSE IF k = i /\ pc = "collect" THEN "Classified"
  ELSE IF \E b \in 1..3 : k \in Ids(buckets[b]) THEN "Included"
  ELSE "DroppedByQuota"

Terminal == {"Rejected", "Included", "DroppedByQuota"}

Edges ==
  { <<"Unvisited", "Rejected">>, <<"Unvisited", "Accepted">>,
    <<"Accepted", "Scored">>, <<"Scored", "Classified">>,
    <<"Classified", "Included">>, <<"Classified", "DroppedByQuota">> }

\* the scan is over
scanned == scanning /\ pc \in {"projects", "output", "parse", "done"}

\* C18, as claimed, the part that fails: when the scan of a call with a
\* positive budget is over, every record of the stream has been visited and
\* is in a terminal state.
C18_EveryRecordVisited ==
  scanned /\ maxResults > 0 =>
    \A k \in 1..Len(docTasks) : RecordState(k) \in Terminal

\* C18, amended: a record is visited at most once, and every record is
\* visited when the scan is not stopped early; a record moves only along
\* Scanned -> Rejected and Scanned -> Accepted -> Scored -> Classified ->
\* Included or DroppedByQuota; the terminal states are never left, the
\* buckets only grow, and no record is in two places.
C18_RecordLifecycle ==
  /\ [][impl = "optimized" =>
          \A k \in 1..Len(docTasks) :
            \/ RecordState(k)' = RecordState(k)
            \/ <<RecordState(k), RecordState(k)'>> \in Edges]_vars
  /\ [][\A b \in 1..3 :
          /\ Len(buckets'[b]) >= Len(buckets[b])
          /\ SubSeq(buckets'[b], 1, Len(buckets[b])) = buckets[b]]_vars
  /\ [](impl = "optimized" =>
          /\ \A k \in 1..Len(docTasks) :
               /\ RecordState(k) \notin Terminal \cup {"Unvisited"} => k = i
               /\ RecordState(k) \in Terminal => k < i
               /\ Cardinality({<<b, n>> \in (1..3) \X (1..Len(docTasks)) :
                                 n <= Len(buckets[b]) /\ buckets[b][n].id = k}) <= 1
          /\ (scanned /\ i > Len(docTasks) =>
                \A k \in 1..Len(docTasks) : RecordState(k) \in Terminal)
          /\ (scanned /\ i <= Len(docTasks) =>
                /\ highCount >= maxHighPriority /\ mediumCount >= maxMediumPriority
                /\ lowCount >= maxLowPriority
                /\ \A k \in i..Len(docTasks) : RecordState(k) = "Unvisited"))

\* C18 happens: under budget 3 the first record was dropped by the quota, the
\* second and third are included, the scan stopped and the call returned
\* without visiting the fourth
C18_Witness ==
  /\ succeeded /\ impl = "optimized" /\ params.maxResults = Some(3)
  /\ Len(docTasks) = 4
  /\ RecordState(1) = "DroppedByQuota"
  /\ RecordState(2) = "Included" /\ RecordState(3) = "Included"
  /\ RecordState(4) = "Unvisited"

\* no counter has reached its capacity
noQuotaReached ==
  highCount < maxHighPriority /\ mediumCount < maxMediumPriority
    /\ lowCount < maxLowPriority

\* C19: the two paths decide alike on every task: what the optimized scan
\* has decided is what the filters of the plain script decide, and the other
\* way round; the tasks the plain path returns are those the filters of the
\* optimized script pass, and, when no quota is reached, the tasks the
\* optimized path returns are those the filters of the plain script pass.
C19_SameDecisions ==
  /\ \A k \in evaluated :
       /\ impl = "optimized" =>
            (rejectedBy[k] = "none" <=> PlainShouldInclude(docTasks[k]))
       /\ impl = "plain" =>
            (rejectedBy[k] = "none" <=> ShouldInclude(docTasks[k]))
  /\ succeeded /\ impl = "plain" =>
       Returned = {k \in 1..Len(docTasks) : ShouldInclude(docTasks[k])}
  /\ succeeded /\ impl = "optimized" /\ noQuotaReached =>
       Returned = {k \in 1..Len(docTasks) : PlainShouldInclude(docTasks[k])}

\* C19 happens: under a maximum duration alone the plain path has returned a
\* task without estimated duration, as the optimized filters would
C19_Witness ==
  /\ succeeded /\ impl = "plain"
  /\ params.maxEstimatedMinutes = Some(60) /\ ~IsVal(params.minEstimatedMinutes)
  /\ Len(docTasks) = 1 /\ docTasks[1].estimatedMinutes = Unavailable
  /\ Returned = {1} /\ ShouldInclude(docTasks[1])

C21_BudgetOneOrTwo ==
  maxResults \in {1, 2} /\ scanning =>
    /\ maxHighPriority = 0 /\ maxMediumPriority = 0 /\ maxLowPriority = 0
    /\ evaluated = {}
    /\ pc \notin {"score", "classify", "collect"}
    /\ highPriorityTasks = <<>> /\ mediumPriorityTasks = <<>>
    /\ lowPriorityTasks = <<>>
    /\ (pc = "done" => /\ result.success
                       /\ result.tasks = <<>>
                       /\ result.stats.totalFiltered = 0
                       /\ result.stats.maxResults = maxResults)

\* C21 happens: budget 1 on a stream of four tasks, a high one first, has
\* returned nothing
C21_Witness ==
  /\ succeeded /\ scanning /\ params.maxResults = Some(1)
  /\ Len(docTasks) = MaxTasks /\ docTasks[1] = HighTask
  /\ evaluated = {} /\ i = 1
  /\ result.tasks = <<>> /\ result.stats.totalFiltered = 0

====
